---- MODULE Spec2Model ----
(***************************************************************************)
(* Event lifecycle and participation aggregation of w3-hyperlocal:         *)
(* the Flask handlers of app/app.py (save_destination, cancel_destination, *)
(* participate_event, unparticipate_event, get_destinations) and the       *)
(* background job app/jobs/event_status_updater.py, over the two store     *)
(* tables 'destinations' and 'event_participants'.                         *)
(*                                                                         *)
(* Instants are seconds since 2024-06-01 00:00:00.  Strings that the code  *)
(* parses (dates, times) are kept as strings and parsed by table, so that  *)
(* the two parsers of the code (the job's split/int, the handler's         *)
(* strptime) stay two different functions.                                 *)
(***************************************************************************)
EXTENDS Integers, Sequences, FiniteSets, TLC

\* ------------------------------------------------------------------ bounds
\* Rows of 'destinations' under Spec and SpecAgg, and under SpecAll; rows of
\* 'event_participants'.
MaxEvents == 2
MaxEventsAll == 1
MaxParticipations == 1
\* Runs of the job through BaseJob.run.
MaxRuns == 2

\* --------------------------------------------------------------- constants
Users == {"U1", "U2"}

\* The users who create events under Spec (every user does under SpecAgg).
Organizers == {"U1"}

\* Python None / SQL NULL, and a key that is absent from a JSON body.
None == "<None>"
Absent == "<absent>"

SecondsPerMinute == 60
SecondsPerHour == 3600
SecondsPerDay == 86400

\* The wall clock (datetime.now()) moves through these instants:
\* 2024-05-31 12:00:00, 2024-06-01 10:00:00, 23:00:00, 23:59:59,
\* 2024-06-02 00:00:01.
Clock == <<-43200, 36000, 82800, 86399, 86401>>

\* The rows of table 'users' (name may be NULL, then the email is shown).
users == ("U1" :> [name |-> "Ann", email |-> "ann@example.org"])
      @@ ("U2" :> [name |-> None, email |-> "bob@example.org"])

\* ------------------------------------------------------- parsing of strings
\* Day number of the calendar dates that '%Y-%m-%d' accepts; any other
\* string makes strptime raise ValueError.
DateOrdinal == ("2024-06-01" :> 0) @@ ("2024-06-02" :> 1)

\* str.split(':') of the time strings, each component already read by int().
TimeParts == ("00:00:00" :> <<0, 0, 0>>) @@ ("10:00" :> <<10, 0>>)
          @@ ("10:00:00" :> <<10, 0, 0>>)

\* Rank of a string in Python's (lexicographic) order of str.
StrRank == ("00:00:00" :> 1) @@ ("10:00" :> 2) @@ ("10:00:00" :> 3)
        @@ ("2024-06-01" :> 4) @@ ("2024-06-02" :> 5) @@ ("not-a-date" :> 6)

Raise == [ok |-> FALSE, v |-> 0]
Return(x) == [ok |-> TRUE, v |-> x]

\* Python truthiness of a nullable string.
Truthy(s) == s # None /\ s # ""

\* datetime.strptime(s, '%Y-%m-%d').date()
strptime_date(s) ==
    IF s \in DOMAIN DateOrdinal THEN Return(DateOrdinal[s]) ELSE Raise

\* datetime.time(hour, minute, second): ValueError outside the ranges.
time(hour, minute, second) ==
    IF hour \in 0..23 /\ minute \in 0..59 /\ second \in 0..59
    THEN Return(hour * SecondsPerHour + minute * SecondsPerMinute + second)
    ELSE Raise

\* datetime.strptime(s, '%H:%M:%S').time(): exactly three components.
strptime_time(s) ==
    IF s \in DOMAIN TimeParts /\ Len(TimeParts[s]) = 3
    THEN time(TimeParts[s][1], TimeParts[s][2], TimeParts[s][3])
    ELSE Raise

\* datetime.combine(date, time)
combine(d, t) == d * SecondsPerDay + t

\* The job's event_datetime (event_status_updater.py, lines 60-73).
event_datetime(event) ==
    LET d == strptime_date(event.scheduled_date)
    IN  IF Truthy(event.scheduled_time)
        THEN IF event.scheduled_time \notin DOMAIN TimeParts THEN Raise
             ELSE LET time_parts == TimeParts[event.scheduled_time]
                      hour == time_parts[1]
                      minute == IF Len(time_parts) > 1 THEN time_parts[2] ELSE 0
                      second == IF Len(time_parts) > 2 THEN time_parts[3] ELSE 0
                      t == time(hour, minute, second)
                  IN  IF d.ok /\ t.ok THEN Return(combine(d.v, t.v)) ELSE Raise
        ELSE IF d.ok
             THEN Return(combine(d.v, time(23, 59, 59).v))
             ELSE Raise

\* The handler's scheduled_datetime (app.py, lines 366-374).
scheduled_datetime(destination) ==
    LET scheduled_date == strptime_date(destination.scheduled_date)
    IN  IF ~scheduled_date.ok THEN Raise
        ELSE IF Truthy(destination.scheduled_time)
        THEN LET scheduled_time == strptime_time(destination.scheduled_time)
             IN  IF scheduled_time.ok
                 THEN Return(combine(scheduled_date.v, scheduled_time.v))
                 ELSE Raise
        ELSE Return(combine(scheduled_date.v, 0))

\* ------------------------------------------------------------------- state
VARIABLES
    destinations,        \* table 'destinations': rows in id order, id = index
    event_participants,  \* table 'event_participants': rows in insert order
    now,                 \* the wall clock
    sweep,               \* the job's run in progress (execute's locals)
    cancel,              \* the cancel request between its read and its write
    response,            \* what the last finished operation returned
    job,                 \* the job object's last_run and run_count
    partreq              \* the participate request between its check and its write

vars == <<destinations, event_participants, now, sweep, cancel, response, job, partreq>>

SweepIdle == [pc |-> "idle", events |-> <<>>, i |-> 0, now |-> 0, updated_count |-> 0]
CancelIdle == [pc |-> "idle", id |-> 0, user |-> None]
PartIdle == [pc |-> "idle", event_id |-> 0, user_id |-> None,
             participation_type |-> None, existing |-> FALSE]

Init ==
    /\ destinations = <<>>
    /\ event_participants = <<>>
    /\ now = Clock[1]
    /\ sweep = SweepIdle
    /\ cancel = CancelIdle
    /\ response = [op |-> "none", code |-> 0, body |-> [error |-> None]]
    /\ job = [last_run |-> <<>>, run_count |-> 0]
    /\ partreq = PartIdle

\* ------------------------------------------------------------------- clock
Tick ==
    /\ \E k \in DOMAIN Clock : Clock[k] > now /\ now' = Clock[k]
    /\ UNCHANGED <<destinations, event_participants, sweep, cancel, response, job, partreq>>

\* ---------------------------------------- POST /api/destinations (create)
\* The request bodies a client sends: scheduled_date and scheduled_time.
Bodies ==
    { [scheduled_date |-> "2024-06-01", scheduled_time |-> Absent],
      [scheduled_date |-> "2024-06-01", scheduled_time |-> ""],
      [scheduled_date |-> "2024-06-01", scheduled_time |-> "10:00:00"],
      [scheduled_date |-> "2024-06-01", scheduled_time |-> "10:00"],
      [scheduled_date |-> "not-a-date", scheduled_time |-> Absent],
      [scheduled_date |-> Absent, scheduled_time |-> Absent] }

StatusInputs == {Absent, "active", "cancelled"}

\* Lines 301-310: the row that is inserted.
NewRow(id, user_id, data, status) ==
    [id |-> id,
     user_id |-> user_id,
     scheduled_date |-> data.scheduled_date,
     scheduled_time |->
         IF data.scheduled_time = Absent \/ ~Truthy(data.scheduled_time)
         THEN None ELSE data.scheduled_time,
     status |-> IF status = Absent THEN "active" ELSE status]

save_destination(user_id, data, status) ==
    /\ IF data.scheduled_date = Absent
       THEN /\ response' = [op |-> "create", code |-> 400, body |-> [error |-> "Missing required field"]]
            /\ UNCHANGED destinations
       ELSE /\ destinations' = Append(destinations,
                NewRow(Len(destinations) + 1, user_id, data, status))
            /\ response' = [op |-> "create", code |-> 200, body |-> [id |-> Len(destinations) + 1]]
    /\ UNCHANGED <<event_participants, now, sweep, cancel, job, partreq>>

\* ------------------------------------------ EventStatusUpdater.execute
\* table('destinations').update({'status': s}).eq('id', id)
UpdateStatus(table, id, s) ==
    [k \in DOMAIN table |-> IF table[k].id = id THEN [table[k] EXCEPT !.status = s] ELSE table[k]]

\* table('destinations').select(...).eq('status', 'active')
SelectActive(table) == SelectSeq(table, LAMBDA row : row.status = "active")

\* Lines 31-44: the fetch of the active events and the reading of the clock.
\* Lines 94-99 (and 23-27): the single result of a run that has failed.
FailureResultSucceeds == [success |-> TRUE, updated |-> 0]

FailureResult == [success |-> FALSE, error |-> "Exception"]

\* Lines 23-27 and 31-33 with 94-99: there is no client, or the query for the
\* active events raises; the run ends before the loop.
execute_fetch_fails ==
    /\ sweep.pc = "idle"
    /\ response' = [op |-> "sweep", code |-> 200, body |-> FailureResult]
    /\ UNCHANGED <<destinations, event_participants, now, sweep, cancel, partreq>>

SweepFetchFails == execute_fetch_fails /\ UNCHANGED job

execute_fetch ==
    /\ sweep.pc = "idle"
    /\ LET data == SelectActive(destinations)
       IN  IF data = <<>>
           THEN /\ response' = [op |-> "sweep", code |-> 200,
                                body |-> [success |-> TRUE, updated |-> 0]]
                /\ UNCHANGED sweep
           ELSE /\ sweep' = [pc |-> "loop", events |-> data, i |-> 1, now |-> now,
                             updated_count |-> 0]
                /\ UNCHANGED response
    /\ UNCHANGED <<destinations, event_participants, now, cancel, partreq>>

\* execute() called on its own.
SweepFetch == execute_fetch /\ UNCHANGED job

\* The status the job writes to an expired event (line 79).
ExpiredStatusReverts == "active"

ExpiredStatus == "past"

\* Lines 46-92 and 94-99: one iteration of the loop over the fetched events;
\* the iteration over the last event returns the report, an exception
\* anywhere ends the run in the handler of line 94.
execute_step ==
    /\ sweep.pc = "loop"
    /\ LET event == sweep.events[sweep.i]
           skip == event.status = "cancelled" \/ ~Truthy(event.scheduled_date)
           dt == IF skip THEN Return(0) ELSE event_datetime(event)
           expired == ~skip /\ dt.ok /\ sweep.now > dt.v
           count == IF expired THEN sweep.updated_count + 1 ELSE sweep.updated_count
       IN  IF ~dt.ok
           THEN /\ response' = [op |-> "sweep", code |-> 200,
                                body |-> FailureResult]
                /\ sweep' = SweepIdle
                /\ UNCHANGED destinations
           ELSE /\ destinations' =
                       IF expired THEN UpdateStatus(destinations, event.id, ExpiredStatus)
                       ELSE destinations
                /\ IF sweep.i = Len(sweep.events)
                   THEN /\ response' = [op |-> "sweep", code |-> 200,
                                        body |-> [success |-> TRUE,
                                                  checked |-> Len(sweep.events),
                                                  updated |-> count]]
                        /\ sweep' = SweepIdle
                   ELSE /\ sweep' = [sweep EXCEPT !.i = @ + 1, !.updated_count = count]
                        /\ UNCHANGED response
    /\ UNCHANGED <<event_participants, now, cancel, partreq>>

SweepStep == execute_step /\ UNCHANGED job

\* ----------------------------------------------------------- BaseJob.run
\* Lines 44-45: the tracking of a run that has returned.
\* last_run is <<>> for None and <<t>> for the datetime t.
TrackedCountOnly == [last_run |-> job.last_run, run_count |-> job.run_count + 1]

Tracked == [last_run |-> <<now>>, run_count |-> job.run_count + 1]

\* execute() called by run(): the run is tracked when execute returns.
RunFetch ==
    /\ job.run_count < MaxRuns
    /\ execute_fetch
    /\ job' = IF sweep'.pc = "idle" THEN Tracked ELSE job

RunStep ==
    /\ execute_step
    /\ job' = IF sweep'.pc = "idle" THEN Tracked ELSE job

\* run() over an execute() whose fetch fails: execute returns its failure
\* result and the run is tracked (lines 43-46).
RunFetchFails ==
    /\ job.run_count < MaxRuns
    /\ execute_fetch_fails
    /\ job' = Tracked

\* Lines 47-54: execute() raises; the run is tracked and run() returns a
\* result of its own.
RunRaises ==
    /\ job.run_count < MaxRuns
    /\ sweep.pc = "idle"
    /\ job' = Tracked
    /\ response' = [op |-> "run", code |-> 200,
                    body |-> [success |-> FALSE, error |-> "Exception"]]
    /\ UNCHANGED <<destinations, event_participants, now, sweep, cancel, partreq>>

\* Lines 56-62: last_run.isoformat() if last_run else None.
get_status ==
    [last_run |-> IF job.last_run # <<>> THEN ToString(job.last_run[1]) ELSE None,
     run_count |-> job.run_count]

\* --------------------------- PATCH /api/destinations/<id>/cancel (cancel)
\* Line 358: the requester is the organizer.
IsOrganizerUnchecked(destination, user_id) == TRUE

IsOrganizer(destination, user_id) == destination.user_id = user_id

CancelReply(code, error) ==
    [op |-> "cancel", code |-> code,
     body |-> IF code = 200 THEN [status |-> "cancelled"] ELSE [error |-> error]]

\* Lines 351-377 with the check of the schedule made before the check of
\* the status.
CancelCheckPastFirst(user_id, destination_id) ==
    IF destination_id \notin DOMAIN destinations
    THEN CancelReply(404, "Destination not found")
    ELSE LET destination == destinations[destination_id]
             dt == scheduled_datetime(destination)
         IN  IF ~IsOrganizer(destination, user_id)
             THEN CancelReply(403, "Unauthorized")
             ELSE IF ~dt.ok
             THEN CancelReply(500, "ValueError")
             ELSE IF dt.v < now
             THEN CancelReply(400, "Cannot cancel past events")
             ELSE IF destination.status = "cancelled"
             THEN CancelReply(400, "Destination is already cancelled")
             ELSE CancelReply(200, None)

\* Lines 351-377: the read of the row and every check made on it.
CancelCheck(user_id, destination_id) ==
    IF destination_id \notin DOMAIN destinations
    THEN CancelReply(404, "Destination not found")
    ELSE LET destination == destinations[destination_id]
             dt == scheduled_datetime(destination)
         IN  IF ~IsOrganizer(destination, user_id)
             THEN CancelReply(403, "Unauthorized")
             ELSE IF destination.status = "cancelled"
             THEN CancelReply(400, "Destination is already cancelled")
             ELSE IF ~dt.ok
             THEN CancelReply(500, "ValueError")
             ELSE IF dt.v < now
             THEN CancelReply(400, "Cannot cancel past events")
             ELSE CancelReply(200, None)

CancelRead(user_id, destination_id) ==
    /\ cancel.pc = "idle"
    /\ LET r == CancelCheck(user_id, destination_id)
       IN  IF r.code = 200
           THEN /\ cancel' = [pc |-> "update", id |-> destination_id, user |-> user_id]
                /\ UNCHANGED response
           ELSE /\ response' = r
                /\ UNCHANGED cancel
    /\ UNCHANGED <<destinations, event_participants, now, sweep, job, partreq>>

\* Lines 380-381: the update of the row, whatever its status is by now.
CancelWrite ==
    /\ cancel.pc = "update"
    /\ destinations' = UpdateStatus(destinations, cancel.id, "cancelled")
    /\ response' = CancelReply(200, None)
    /\ cancel' = CancelIdle
    /\ UNCHANGED <<event_participants, now, sweep, job, partreq>>

\* ----------------------- POST /api/events/<id>/participate (participate)
\* The rows of one (event, user) pair.
HasParticipation(user_id, event_id) ==
    \E k \in DOMAIN event_participants :
        /\ event_participants[k].event_id = event_id
        /\ event_participants[k].user_id = user_id

\* ------------------------- DELETE /api/destinations/<id> (delete)
\* Lines 328-336.  The table keeps the row of id k at index k, so the
\* requests enumerated are those for the last row and for ids past it.
delete_destination(user_id, destination_id) ==
    /\ IF destination_id \notin DOMAIN destinations
       THEN /\ response' = [op |-> "delete", code |-> 404,
                            body |-> [error |-> "Destination not found"]]
            /\ UNCHANGED destinations
       ELSE IF destinations[destination_id].user_id # user_id
       THEN /\ response' = [op |-> "delete", code |-> 403,
                            body |-> [error |-> "Unauthorized"]]
            /\ UNCHANGED destinations
       ELSE /\ destinations' =
                   SelectSeq(destinations, LAMBDA row : row.id # destination_id)
            /\ response' = [op |-> "delete", code |-> 200, body |-> [success |-> TRUE]]
    /\ UNCHANGED <<event_participants, now, sweep, cancel, job, partreq>>

\* Lines 394-424 without the check of lines 402-404: any event id is taken.
participate_eventAnyEvent(user_id, event_id, participation_type) ==
    /\ IF participation_type \notin {"joined", "interested"}
       THEN /\ response' = [op |-> "participate", code |-> 400,
                            body |-> "Invalid participation type"]
            /\ UNCHANGED event_participants
       ELSE /\ event_participants' =
                   IF HasParticipation(user_id, event_id)
                   THEN [k \in DOMAIN event_participants |->
                            IF /\ event_participants[k].event_id = event_id
                               /\ event_participants[k].user_id = user_id
                            THEN [event_participants[k] EXCEPT
                                      !.participation_type = participation_type]
                            ELSE event_participants[k]]
                   ELSE Append(event_participants,
                               [event_id |-> event_id, user_id |-> user_id,
                                participation_type |-> participation_type])
            /\ response' = [op |-> "participate", code |-> 200, body |-> participation_type]
    /\ UNCHANGED <<destinations, now, sweep, cancel, job, partreq>>

\* Lines 394-424 without the check of line 409: every request inserts.
participate_eventInserts(user_id, event_id, participation_type) ==
    /\ IF participation_type \notin {"joined", "interested"}
       THEN /\ response' = [op |-> "participate", code |-> 400,
                            body |-> "Invalid participation type"]
            /\ UNCHANGED event_participants
       ELSE IF event_id \notin DOMAIN destinations
       THEN /\ response' = [op |-> "participate", code |-> 404, body |-> "Event not found"]
            /\ UNCHANGED event_participants
       ELSE /\ event_participants' =
                   Append(event_participants,
                          [event_id |-> event_id, user_id |-> user_id,
                           participation_type |-> participation_type])
            /\ response' = [op |-> "participate", code |-> 200, body |-> participation_type]
    /\ UNCHANGED <<destinations, now, sweep, cancel, job, partreq>>

participate_event(user_id, event_id, participation_type) ==
    /\ IF participation_type \notin {"joined", "interested"}
       THEN /\ response' = [op |-> "participate", code |-> 400,
                            body |-> "Invalid participation type"]
            /\ UNCHANGED event_participants
       ELSE IF event_id \notin DOMAIN destinations
       THEN /\ response' = [op |-> "participate", code |-> 404, body |-> "Event not found"]
            /\ UNCHANGED event_participants
       ELSE /\ event_participants' =
                   IF HasParticipation(user_id, event_id)
                   THEN [k \in DOMAIN event_participants |->
                            IF /\ event_participants[k].event_id = event_id
                               /\ event_participants[k].user_id = user_id
                            THEN [event_participants[k] EXCEPT
                                      !.participation_type = participation_type]
                            ELSE event_participants[k]]
                   ELSE Append(event_participants,
                               [event_id |-> event_id, user_id |-> user_id,
                                participation_type |-> participation_type])
            /\ response' = [op |-> "participate", code |-> 200, body |-> participation_type]
    /\ UNCHANGED <<destinations, now, sweep, cancel, job, partreq>>

\* The same request as its two calls to the store: lines 394-409, the
\* validation and the check for an existing row of the pair ...
ParticipateCheck(user_id, event_id, participation_type) ==
    /\ partreq.pc = "idle"
    /\ IF participation_type \notin {"joined", "interested"}
       THEN /\ response' = [op |-> "participate", code |-> 400,
                            body |-> "Invalid participation type"]
            /\ UNCHANGED partreq
       ELSE IF event_id \notin DOMAIN destinations
       THEN /\ response' = [op |-> "participate", code |-> 404, body |-> "Event not found"]
            /\ UNCHANGED partreq
       ELSE /\ partreq' = [pc |-> "write", event_id |-> event_id, user_id |-> user_id,
                           participation_type |-> participation_type,
                           existing |-> HasParticipation(user_id, event_id)]
            /\ UNCHANGED response
    /\ UNCHANGED <<destinations, event_participants, now, sweep, cancel, job>>

\* ... and lines 411-424, the update of the rows of the pair when the check
\* found one, the insert of a new row when it found none.
ParticipateWrite ==
    /\ partreq.pc = "write"
    /\ event_participants' =
           IF partreq.existing
           THEN [k \in DOMAIN event_participants |->
                    IF /\ event_participants[k].event_id = partreq.event_id
                       /\ event_participants[k].user_id = partreq.user_id
                    THEN [event_participants[k] EXCEPT
                              !.participation_type = partreq.participation_type]
                    ELSE event_participants[k]]
           ELSE Append(event_participants,
                       [event_id |-> partreq.event_id, user_id |-> partreq.user_id,
                        participation_type |-> partreq.participation_type])
    /\ response' = [op |-> "participate", code |-> 200,
                    body |-> IF partreq.existing
                                /\ ~HasParticipation(partreq.user_id, partreq.event_id)
                             THEN "{}" ELSE partreq.participation_type]
    /\ partreq' = PartIdle
    /\ UNCHANGED <<destinations, now, sweep, cancel, job>>

\* --------------------- DELETE /api/events/<id>/participate (unparticipate)
unparticipate_event(user_id, event_id) ==
    /\ event_participants' = SelectSeq(event_participants,
           LAMBDA row : ~(row.event_id = event_id /\ row.user_id = user_id))
    /\ response' = [op |-> "unparticipate", code |-> 200, body |-> "success"]
    /\ UNCHANGED <<destinations, now, sweep, cancel, job, partreq>>

\* --------------------------------- GET /api/destinations (aggregate)
\* The sort key of line 234; dict.get returns the stored None of an all-day
\* event, the default '' only for a missing key.
SortKey(x) ==
    << IF "scheduled_date" \in DOMAIN x THEN x.scheduled_date ELSE "",
       IF "scheduled_time" \in DOMAIN x THEN x.scheduled_time ELSE "" >>

\* a < b on two keys, as Python compares tuples: the first differing
\* component decides, and None < str (or str < None) raises TypeError.
KeyLess(a, b) ==
    IF a[1] # b[1]
    THEN IF a[1] = None \/ b[1] = None THEN Raise
         ELSE Return(StrRank[a[1]] < StrRank[b[1]])
    ELSE IF a[2] # b[2]
    THEN IF a[2] = None \/ b[2] = None THEN Raise
         ELSE Return(StrRank[a[2]] < StrRank[b[2]])
    ELSE Return(FALSE)

EntryLess(x, y) == KeyLess(SortKey(x), SortKey(y))

\* list.sort on fewer than 64 elements: count_run finds the run the list
\* starts with (reversed when strictly descending), binarysort inserts the
\* remaining elements one at a time.
RECURSIVE count_run(_, _, _)
count_run(list, i, descending) ==
    IF i > Len(list) THEN Return(Len(list))
    ELSE LET c == EntryLess(list[i], list[i - 1])
         IN  IF ~c.ok THEN Raise
             ELSE IF c.v = descending THEN count_run(list, i + 1, descending)
             ELSE Return(i - 1)

Reverse(list) == [k \in 1..Len(list) |-> list[Len(list) + 1 - k]]

RECURSIVE binarysearch(_, _, _, _)
binarysearch(list, pivot, l, r) ==
    IF l >= r THEN Return(l)
    ELSE LET p == l + ((r - l) \div 2)
             c == EntryLess(pivot, list[p + 1])
         IN  IF ~c.ok THEN Raise
             ELSE IF c.v THEN binarysearch(list, pivot, l, p)
             ELSE binarysearch(list, pivot, p + 1, r)

RECURSIVE binarysort(_, _)
binarysort(list, start) ==
    IF start > Len(list) THEN Return(list)
    ELSE LET l == binarysearch(list, list[start], 0, start - 1)
         IN  IF ~l.ok THEN Raise
             ELSE binarysort(SubSeq(list, 1, l.v) \o <<list[start]>>
                                 \o SubSeq(list, l.v + 1, start - 1)
                                 \o SubSeq(list, start + 1, Len(list)),
                             start + 1)

sort(list) ==
    IF Len(list) < 2 THEN Return(list)
    ELSE LET first == EntryLess(list[2], list[1])
             n == IF first.ok THEN count_run(list, 3, first.v) ELSE Raise
         IN  IF ~n.ok THEN Raise
             ELSE binarysort(
                      (IF first.v THEN Reverse(SubSeq(list, 1, n.v))
                       ELSE SubSeq(list, 1, n.v))
                          \o SubSeq(list, n.v + 1, Len(list)),
                      n.v + 1)

\* Line 201: select('event_id') returns rows that hold the event_id alone.
SelectEventId(user_id) ==
    LET mine == SelectSeq(event_participants, LAMBDA row : row.user_id = user_id)
    IN  [k \in DOMAIN mine |-> [event_id |-> mine[k].event_id]]

\* Lines 228-230: the organizer's name, or the email when there is no name.
WithOrganizer(dest) ==
    IF dest.user_id \in DOMAIN users
    THEN dest @@ [organizer_name |->
                     IF users[dest.user_id].name # None
                     THEN users[dest.user_id].name ELSE users[dest.user_id].email]
    ELSE dest

\* Lines 195-236: the result of the request, Raise when a step raises.
all_destinations(user_id) ==
    LET created == SelectSeq(destinations, LAMBDA row : row.user_id = user_id)
        participants == SelectEventId(user_id)
        event_ids == {participants[k].event_id : k \in DOMAIN participants}
        participant_destinations ==
            SelectSeq(destinations, LAMBDA row : row.id \in event_ids)
        own == [k \in DOMAIN created |-> created[k] @@ [is_organizer |-> TRUE]]
        others == SelectSeq(participant_destinations,
                            LAMBDA row : row.user_id # user_id)
        \* next(p for p in participants.data if p['event_id'] == dest['id'])
        part(dest) == participants[
            CHOOSE k \in DOMAIN participants :
                /\ participants[k].event_id = dest.id
                /\ \A j \in 1..(k - 1) : participants[j].event_id # dest.id]
        \* part['participation_type']: KeyError when the row has no such key
        KeyError == \E k \in DOMAIN others :
                        "participation_type" \notin DOMAIN part(others[k])
        joined == [k \in DOMAIN others |->
                      others[k] @@ [is_organizer |-> FALSE,
                                    participation_type |->
                                        part(others[k]).participation_type]]
    IN  IF KeyError THEN Raise
        ELSE LET merged == own \o joined
             IN  sort([k \in DOMAIN merged |-> WithOrganizer(merged[k])])

\* Lines 192-239 with the except of line 237 answering an error.
get_destinationsPropagates(user_id) ==
    /\ LET result == all_destinations(user_id)
       IN  response' = [op |-> "aggregate", code |-> IF result.ok THEN 200 ELSE 500,
                        body |-> IF result.ok THEN result.v ELSE <<>>]
    /\ UNCHANGED <<destinations, event_participants, now, sweep, cancel, job, partreq>>

get_destinations(user_id) ==
    /\ LET result == all_destinations(user_id)
       IN  response' = [op |-> "aggregate", code |-> 200,
                        body |-> IF result.ok THEN result.v ELSE <<>>]
    /\ UNCHANGED <<destinations, event_participants, now, sweep, cancel, job, partreq>>

\* Lines 196-207 or 226 with 237-239: a query to the store raises.
get_destinations_fails(user_id) ==
    /\ response' = [op |-> "aggregate", code |-> 200, body |-> <<>>]
    /\ UNCHANGED <<destinations, event_participants, now, sweep, cancel, job, partreq>>

\* ----------------------------------------------------------- specifications
\* The event lifecycle: creation, the clock, the job and the cancel request.
Next ==
    \/ Tick
    \/ \E u \in Organizers, data \in Bodies, s \in StatusInputs :
           Len(destinations) < MaxEvents /\ save_destination(u, data, s)
    \/ SweepFetch
    \/ SweepFetchFails
    \/ SweepStep
    \/ \E u \in Users, id \in 1..MaxEvents : CancelRead(u, id)
    \/ CancelWrite

Spec == Init /\ [][Next]_vars

\* The lifecycle with the job run again and again: a run that can start
\* (there are active events to fetch) does start, a run that has started
\* goes on.  Both steps change the job's locals.
SpecFair == Spec /\ WF_sweep(SweepFetch) /\ WF_sweep(SweepStep)

\* Every operation that writes to the store; the requests to participate
\* carry one kind the handler accepts and one it rejects.
CoreBodies ==
    { [scheduled_date |-> "2024-06-01", scheduled_time |-> Absent],
      [scheduled_date |-> "2024-06-01", scheduled_time |-> "10:00:00"],
      [scheduled_date |-> "not-a-date", scheduled_time |-> Absent] }

NextAll ==
    \/ Tick
    \/ \E u \in Organizers, data \in CoreBodies, s \in StatusInputs \cup {"draft"} :
           Len(destinations) < MaxEventsAll /\ save_destination(u, data, s)
    \/ SweepFetch
    \/ SweepStep
    \/ \E u \in Users, id \in 1..MaxEventsAll : CancelRead(u, id)
    \/ CancelWrite
    \/ \E u \in Users, id \in 1..MaxEventsAll, t \in {"joined", "maybe"} :
           /\ HasParticipation(u, id) \/ Len(event_participants) < MaxParticipations
           /\ participate_event(u, id, t)
    \/ \E u \in Users, id \in 1..MaxEventsAll : unparticipate_event(u, id)

SpecAll == Init /\ [][NextAll]_vars

\* The aggregation of a user's events over a store that creation and
\* participation fill.
AggBodies ==
    { [scheduled_date |-> "2024-06-01", scheduled_time |-> Absent],
      [scheduled_date |-> "2024-06-01", scheduled_time |-> "10:00:00"],
      [scheduled_date |-> "2024-06-02", scheduled_time |-> "00:00:00"] }

NextAgg ==
    \/ \E u \in Users, data \in AggBodies :
           Len(destinations) < MaxEvents /\ save_destination(u, data, Absent)
    \/ \E u \in Users, id \in 1..MaxEvents, t \in {"joined", "interested"} :
           /\ HasParticipation(u, id) \/ Len(event_participants) < MaxParticipations
           /\ participate_event(u, id, t)
    \/ \E u \in Users, id \in 1..MaxEvents : unparticipate_event(u, id)
    \/ \E u \in Users : get_destinations(u)
    \/ \E u \in Users : get_destinations_fails(u)

SpecAgg == Init /\ [][NextAgg]_vars

\* Requests to participate that overlap: one request may be between its
\* check and its write while others are served.
NextPart ==
    \/ \E u \in Organizers :
           /\ Len(destinations) < MaxEvents
           /\ save_destination(u, [scheduled_date |-> "2024-06-01",
                                   scheduled_time |-> Absent], Absent)
    \/ \E u \in Users, id \in 1..MaxEvents, t \in {"joined", "interested", "maybe"} :
           ParticipateCheck(u, id, t)
    \/ Len(event_participants) <= MaxParticipations /\ ParticipateWrite
    \/ \E u \in Users, id \in 1..MaxEvents, t \in {"joined", "interested"} :
           /\ HasParticipation(u, id) \/ Len(event_participants) <= MaxParticipations
           /\ participate_event(u, id, t)
    \/ \E u \in Users, id \in 1..MaxEvents : unparticipate_event(u, id)

SpecPart == Init /\ [][NextPart]_vars

\* Participation requests, valid and not, over events that come and go.
\* An id is given to a new event only when no participation row names it
\* (the store never gives the id of a deleted row to a new one).
NextVal ==
    \/ \E u \in Organizers :
           /\ Len(destinations) < MaxEvents
           /\ \A k \in DOMAIN event_participants :
                  event_participants[k].event_id # Len(destinations) + 1
           /\ save_destination(u, [scheduled_date |-> "2024-06-01",
                                   scheduled_time |-> Absent], Absent)
    \/ \E u \in Users, id \in 1..MaxEvents :
           id >= Len(destinations) /\ delete_destination(u, id)
    \/ \E u \in Users, id \in 1..MaxEvents, t \in {"joined", "interested", "maybe", None} :
           /\ HasParticipation(u, id) \/ Len(event_participants) <= MaxParticipations
           /\ participate_event(u, id, t)
    \/ \E u \in Users, id \in 1..MaxEvents : unparticipate_event(u, id)

SpecVal == Init /\ [][NextVal]_vars

\* Runs of the job in succession, through BaseJob.run, on a store and at an
\* instant that do not change otherwise.
Stores ==
    UNION { { st \in [1..n -> { NewRow(id, u, data, s) :
                                   id \in 1..n, u \in Organizers,
                                   data \in { b \in Bodies : b.scheduled_date # Absent },
                                   s \in {"active", "past", "cancelled"} }] :
                 \A k \in 1..n : st[k].id = k } : n \in 0..MaxEvents }

InitTwice ==
    /\ destinations \in Stores
    /\ event_participants = <<>>
    /\ now \in { Clock[k] : k \in DOMAIN Clock }
    /\ sweep = SweepIdle
    /\ cancel = CancelIdle
    /\ response = [op |-> "none", code |-> 0, body |-> [error |-> None]]
    /\ job = [last_run |-> <<>>, run_count |-> 0]
    /\ partreq = PartIdle

NextTwice ==
    \/ RunFetch
    \/ RunStep

SpecTwice == InitTwice /\ [][NextTwice]_vars

\* Runs of the job through BaseJob.run over an execute() that returns a
\* report, returns a failure, or raises.
NextRun ==
    \/ RunFetch
    \/ RunFetchFails
    \/ RunStep
    \/ RunRaises

SpecRun == InitTwice /\ [][NextRun]_vars

\* ================================================================== claims
Terminal(row) == row.status \in {"past", "cancelled"}

\* The effective instant of an all-day event: 23:59:59 of its date.
EndOfDay(row) == combine(DateOrdinal[row.scheduled_date], 86399)

AllDay(row) == ~Truthy(row.scheduled_time) /\ row.scheduled_date \in DOMAIN DateOrdinal

\* The step that ends a run of the job.
SweepEnds == sweep.pc = "loop" /\ sweep'.pc = "idle"

\* The fetched events whose effective instant is before the run's now.
FetchedExpired ==
    { sweep.events[k].id : k \in
        { j \in DOMAIN sweep.events :
            /\ event_datetime(sweep.events[j]).ok
            /\ event_datetime(sweep.events[j]).v < sweep.now } }

\* C1: under any interleaving of the job's and the cancel request's reads
\* and writes, an event whose status is past or cancelled keeps that status.
C1_TerminalStatusKept ==
    [][\A k \in DOMAIN destinations :
          Terminal(destinations[k]) =>
              destinations'[k].status = destinations[k].status]_vars

\* C2: no operation gives an event that is past or cancelled the status
\* active again.
C2_NeverActiveAgain ==
    [][\A k \in DOMAIN destinations :
          Terminal(destinations[k]) => destinations'[k].status # "active"]_vars

\* An event is past and a later participate request on the store succeeded.
C2_Witness ==
    /\ \E k \in DOMAIN destinations : destinations[k].status = "past"
    /\ response.op = "participate" /\ response.code = 200

\* C3: a run of the job that meets an event with a malformed date or time
\* still ends with success and with every other fetched event whose
\* effective instant is before now no longer active.
C3_SweepSurvivesBadRecord ==
    [][SweepEnds =>
          \A id \in FetchedExpired :
              response'.body.success /\ destinations'[id].status # "active"]_vars

\* C4: the owner's cancel request on an all-day event that is not cancelled
\* is rejected as past exactly when 23:59:59 of its date is before now, and
\* is carried on to the update otherwise.
C4_CancelAllDay ==
    [][\A u \in Users, id \in DOMAIN destinations :
          ( /\ CancelRead(u, id)
            /\ destinations[id].user_id = u
            /\ destinations[id].status # "cancelled"
            /\ AllDay(destinations[id]) ) =>
              IF EndOfDay(destinations[id]) < now
              THEN /\ response' = CancelReply(400, "Cannot cancel past events")
                   /\ cancel'.pc = "idle"
              ELSE cancel'.pc = "update"]_vars

\* C5: aggregate(user) lists every event the user participates in and does
\* not own, with is_organizer false and the kind of the user's record.
C5_ParticipatedListed ==
    [][\A u \in Users :
          get_destinations(u) =>
              \A k \in DOMAIN event_participants :
                  LET p == event_participants[k]
                  IN  ( /\ p.user_id = u
                        /\ p.event_id \in DOMAIN destinations
                        /\ destinations[p.event_id].user_id # u ) =>
                          \E j \in DOMAIN response'.body :
                              /\ response'.body[j].id = p.event_id
                              /\ response'.body[j].is_organizer = FALSE
                              /\ response'.body[j].participation_type
                                     = p.participation_type]_vars

\* The order of the specification: by date, then by time, no time first.
SpecRank(s) == IF Truthy(s) THEN StrRank[s] ELSE 0

SpecBefore(x, y) ==
    \/ SpecRank(x.scheduled_date) < SpecRank(y.scheduled_date)
    \/ /\ x.scheduled_date = y.scheduled_date
       /\ SpecRank(x.scheduled_time) < SpecRank(y.scheduled_time)

\* C6: aggregate(user) returns all the events the user owns or participates
\* in, ascending by (scheduled_date, scheduled_time), no time first.
C6_AggregateSorted ==
    [][\A u \in Users :
          get_destinations(u) =>
              LET body == response'.body
                  mine == { k \in DOMAIN destinations :
                              \/ destinations[k].user_id = u
                              \/ HasParticipation(u, k) }
              IN  /\ { body[j].id : j \in DOMAIN body } = mine
                  /\ \A i, j \in DOMAIN body :
                         i < j => ~SpecBefore(body[j], body[i])]_vars

\* C7: a run of the job changes the status of exactly the fetched events
\* whose effective instant is before its now, to past: a step changes no
\* other event, and at the end of the run none of those is still active.
C7_SweepExact ==
    [][SweepStep =>
          /\ \A k \in DOMAIN destinations :
                 destinations'[k].status # destinations[k].status =>
                     k \in FetchedExpired /\ destinations'[k].status = "past"
          /\ SweepEnds =>
                 \A id \in FetchedExpired : destinations'[id].status # "active"]_vars

\* C8: the job leaves an all-day event alone while its now is at most
\* 23:59:59 of the event's date, and a run that fetched the event with a
\* later now does not end with the event still active.
C8_AllDaySweep ==
    [][SweepStep =>
          \A k \in DOMAIN sweep.events :
              LET e == sweep.events[k]
              IN  AllDay(e) =>
                      /\ sweep.now <= EndOfDay(e) =>
                             destinations'[e.id].status = destinations[e.id].status
                      /\ (SweepEnds /\ sweep.now > EndOfDay(e)) =>
                             destinations'[e.id].status # "active"]_vars

\* C9: the owner's cancel request on an event that is not cancelled and
\* whose effective instant is before now is rejected as a past event, and
\* the event is left as it is.
C9_CancelPastRejected ==
    [][\A u \in Users, id \in DOMAIN destinations :
          ( /\ CancelRead(u, id)
            /\ destinations[id].user_id = u
            /\ destinations[id].status # "cancelled"
            /\ event_datetime(destinations[id]).ok
            /\ event_datetime(destinations[id]).v < now ) =>
              /\ response' = CancelReply(400, "Cannot cancel past events")
              /\ cancel'.pc = "idle"
              /\ destinations' = destinations]_vars

\* C10: a cancel request on an existing event by a user who is not its
\* owner is answered Unauthorized and changes nothing, whatever the event's
\* status and schedule; only the owner's request moves an event to cancelled.
C10_NonOwnerUnauthorized ==
    [][/\ \A u \in Users, id \in DOMAIN destinations :
             (CancelRead(u, id) /\ destinations[id].user_id # u) =>
                 /\ response' = CancelReply(403, "Unauthorized")
                 /\ cancel' = cancel
                 /\ destinations' = destinations
       /\ \A k \in DOMAIN destinations :
             ( /\ destinations[k].status # "cancelled"
               /\ destinations'[k].status = "cancelled" ) =>
                 cancel.id = k /\ cancel.user = destinations[k].user_id]_vars

\* A non-owner was answered Unauthorized about an event that is past, and
\* about one whose date does not parse.
C10_Witness ==
    /\ response = CancelReply(403, "Unauthorized")
    /\ \E k \in DOMAIN destinations : destinations[k].status = "past"
    /\ \E k \in DOMAIN destinations : destinations[k].scheduled_date = "not-a-date"

\* C11: a run of the job that follows another on the same store with the
\* same now changes no event and reports updated = 0.
C11_SecondRunIdle ==
    [][job.run_count >= 1 =>
          /\ destinations' = destinations
          /\ job'.run_count > job.run_count =>
                 response'.body.success /\ response'.body.updated = 0]_vars

\* C12: aggregate(user) returns no two entries with the same event id, and
\* an event the user owns and has a participation record for is listed
\* once, with is_organizer true.
C12_OwnedAndJoinedOnce ==
    [][\A u \in Users :
          get_destinations(u) =>
              LET body == response'.body
              IN  /\ \A i, j \in DOMAIN body : i # j => body[i].id # body[j].id
                  /\ \A k \in DOMAIN destinations :
                         (destinations[k].user_id = u /\ HasParticipation(u, k)) =>
                             \E j \in DOMAIN body :
                                 body[j].id = k /\ body[j].is_organizer = TRUE]_vars

\* C13: the store never holds two participation records of one (event,
\* user) pair, also when requests to participate overlap.
C13_OneRecordPerPair ==
    \A i, j \in DOMAIN event_participants :
        ( /\ event_participants[i].event_id = event_participants[j].event_id
          /\ event_participants[i].user_id = event_participants[j].user_id ) => i = j

\* C14: every stored event has a status among active, past and cancelled.
C14_StatusInDomain ==
    \A k \in DOMAIN destinations :
        destinations[k].status \in {"active", "past", "cancelled"}

\* C15: with the job run again and again, an active event whose date and
\* time parse and whose effective instant has passed is eventually not
\* active any more (past, or cancelled by its owner), whatever else the
\* store holds.
C15_ExpiredEventuallyPast ==
    \A k \in 1..MaxEvents :
        ( /\ k \in DOMAIN destinations
          /\ destinations[k].status = "active"
          /\ event_datetime(destinations[k]).ok
          /\ event_datetime(destinations[k]).v < now )
            ~> ( /\ k \in DOMAIN destinations
                 /\ destinations[k].status \in {"past", "cancelled"} )

\* C16: when the fetch of the active events fails, the run returns one result
\* with success = false and no event's status is written.
C16_FetchFailureReported ==
    [][SweepFetchFails =>
          /\ response'.op = "sweep"
          /\ response'.body.success = FALSE
          /\ destinations' = destinations
          /\ sweep' = SweepIdle]_vars

\* A failure is reported while an expired active event waits in a store
\* whose rows all parse: only a failed fetch reports it.
C16_Witness ==
    /\ response.op = "sweep"
    /\ response.body.success = FALSE
    /\ sweep.pc = "idle"
    /\ \A k \in DOMAIN destinations : event_datetime(destinations[k]).ok
    /\ \E k \in DOMAIN destinations :
           /\ destinations[k].status = "active"
           /\ event_datetime(destinations[k]).v < now

\* C17: a cancel request on an event that is already cancelled is answered
\* AlreadyCancelled when it comes from the owner and Unauthorized when it
\* comes from anyone else, whatever the event's schedule (passed or not,
\* well-formed or not), and the event is left as it is.
C17_AlreadyCancelled ==
    [][\A u \in Users, id \in DOMAIN destinations :
          (CancelRead(u, id) /\ destinations[id].status = "cancelled") =>
              /\ response' =
                     IF destinations[id].user_id = u
                     THEN CancelReply(400, "Destination is already cancelled")
                     ELSE CancelReply(403, "Unauthorized")
              /\ cancel' = cancel
              /\ destinations' = destinations]_vars

\* The owner was answered AlreadyCancelled while every event of the store
\* is a cancelled event whose time has passed.
C17_Witness ==
    /\ response = CancelReply(400, "Destination is already cancelled")
    /\ cancel.pc = "idle"
    /\ destinations # <<>>
    /\ \A k \in DOMAIN destinations :
           /\ destinations[k].status = "cancelled"
           /\ scheduled_datetime(destinations[k]).ok
           /\ scheduled_datetime(destinations[k]).v < now

\* C18: a participate request that succeeds leaves a record of the pair
\* (event, user), and every record of the pair has the kind of that request;
\* an unparticipate request leaves no record of the pair; and the aggregate
\* of a user lists no event that the user neither owns nor has a record for.
C18_ParticipationLifecycle ==
    [][/\ \A u \in Users, id \in 1..MaxEvents, t \in {"joined", "interested"} :
             ( /\ response'.op = "participate" /\ response'.code = 200
               /\ participate_event(u, id, t) ) =>
                 /\ \E k \in DOMAIN event_participants' :
                        /\ event_participants'[k].event_id = id
                        /\ event_participants'[k].user_id = u
                 /\ \A k \in DOMAIN event_participants' :
                        ( /\ event_participants'[k].event_id = id
                          /\ event_participants'[k].user_id = u ) =>
                            event_participants'[k].participation_type = t
       /\ \A u \in Users, id \in 1..MaxEvents :
             (response'.op = "unparticipate" /\ unparticipate_event(u, id)) =>
                 \A k \in DOMAIN event_participants' :
                     ~ ( /\ event_participants'[k].event_id = id
                         /\ event_participants'[k].user_id = u )
       /\ \A u \in Users :
             (response'.op = "aggregate" /\ get_destinations(u)) =>
                 \A j \in DOMAIN response'.body :
                     \/ response'.body[j].user_id = u
                     \/ HasParticipation(u, response'.body[j].id)]_vars

\* A user's record of another user's event was given the kind 'interested'
\* by the request just answered.
C18_Witness ==
    /\ response = [op |-> "participate", code |-> 200, body |-> "interested"]
    /\ \E k \in DOMAIN event_participants :
           /\ event_participants[k].participation_type = "interested"
           /\ event_participants[k].event_id \in DOMAIN destinations
           /\ destinations[event_participants[k].event_id].user_id
                  # event_participants[k].user_id

\* C19: an aggregate request in which a store query raises, or in which the
\* merge or the sort raises, is answered with the empty list and not with an
\* error, and leaves both tables as they were.
C19_AggregateFailureEmpty ==
    [][\A u \in Users :
          ( \/ get_destinations_fails(u)
            \/ get_destinations(u) /\ ~all_destinations(u).ok ) =>
              /\ response' = [op |-> "aggregate", code |-> 200, body |-> <<>>]
              /\ destinations' = destinations
              /\ event_participants' = event_participants]_vars

\* The empty list was answered while each user owns an event and one of
\* them has a record for the other's event (the merge raises for that user).
C19_Witness ==
    /\ response = [op |-> "aggregate", code |-> 200, body |-> <<>>]
    /\ \A u \in Users : \E k \in DOMAIN destinations : destinations[k].user_id = u
    /\ \E u \in Users : ~all_destinations(u).ok

\* A stored time of the form HH:MM.
HourMinute(event) ==
    /\ event.scheduled_time \in DOMAIN TimeParts
    /\ Len(TimeParts[event.scheduled_time]) = 2

\* C20: for an event with a valid date and a time given as HH:MM, the job
\* and the cancel handler both resolve the effective instant, to the same
\* instant with seconds 0, and the owner's cancel request does not fail on it.
C20_HourMinuteResolved ==
    [][\A u \in Users, id \in DOMAIN destinations :
          ( /\ CancelRead(u, id)
            /\ destinations[id].user_id = u
            /\ destinations[id].status # "cancelled"
            /\ strptime_date(destinations[id].scheduled_date).ok
            /\ HourMinute(destinations[id]) ) =>
              LET parts == TimeParts[destinations[id].scheduled_time]
                  instant == combine(strptime_date(destinations[id].scheduled_date).v,
                                     time(parts[1], parts[2], 0).v)
              IN  /\ event_datetime(destinations[id]) = Return(instant)
                  /\ scheduled_datetime(destinations[id]) = Return(instant)
                  /\ response'.code # 500]_vars

\* The keys a report of the job is to carry.
ReportKeys == {"checked", "updated", "errors"}

\* The rows a step moves from active to past.
MovedToPast ==
    { k \in DOMAIN destinations :
        destinations[k].status = "active" /\ destinations'[k].status = "past" }

\* C21: a report with success carries checked, updated and errors; checked
\* is the number of active events fetched (0 for a run that fetched none),
\* updated + errors is at most checked, and each iteration of the loop adds
\* to the count of updates exactly the number of rows it moved from active
\* to past, whatever a cancel request does between the fetch and the update.
C21_SweepReport ==
    [][/\ (SweepFetch /\ SelectActive(destinations) = <<>>) =>
             /\ ReportKeys \subseteq DOMAIN response'.body
             /\ response'.body.checked = 0
       /\ (SweepStep /\ event_datetime(sweep.events[sweep.i]).ok) =>
             LET counted == IF SweepEnds THEN response'.body.updated
                            ELSE sweep'.updated_count
             IN  counted - sweep.updated_count = Cardinality(MovedToPast)
       /\ (SweepStep /\ SweepEnds /\ response'.body.success) =>
             /\ ReportKeys \subseteq DOMAIN response'.body
             /\ response'.body.checked = Len(sweep.events)
             /\ response'.body.updated + response'.body.errors
                    <= response'.body.checked]_vars

\* The step in which run() returns.
RunReturns ==
    \/ (RunFetch \/ RunStep) /\ sweep'.pc = "idle"
    \/ RunFetchFails
    \/ RunRaises

\* C22: every invocation of run() returns: when it does, run_count has
\* grown by exactly 1 and last_run is the time of the return, whether
\* execute returned or raised; the result of a run whose execute raised has
\* success = false; and get_status reports last_run as null exactly when
\* run_count is 0.
C22_RunTracked ==
    [][/\ RunReturns =>
             /\ job'.run_count = job.run_count + 1
             /\ job'.last_run = <<now>>
       /\ ~RunReturns => job' = job
       /\ RunRaises => response'.body.success = FALSE
       /\ (get_status.last_run = None) <=> (get_status.run_count = 0)
       /\ (get_status'.last_run = None) <=> (get_status'.run_count = 0)]_vars

\* A run whose execute raised has been tracked after an earlier run.
C22_Witness ==
    /\ response.op = "run"
    /\ response.body.success = FALSE
    /\ job.run_count = MaxRuns
    /\ job.last_run = <<now>>
    /\ get_status.last_run # None

\* The participation rows a step writes: the rows of the table after the
\* step that were not in it before.
Written ==
    { event_participants'[k] : k \in DOMAIN event_participants' }
        \ { event_participants[k] : k \in DOMAIN event_participants }

\* C23: a participate request whose kind is neither 'joined' nor
\* 'interested' is answered 400, one for an event that is not in the store
\* is answered 404, and neither changes the participation table; every
\* participation row a step writes has kind joined or interested and names
\* an event that is in the store at that step.
C23_ParticipateValidated ==
    [][/\ \A u \in Users, id \in 1..MaxEvents,
             t \in {"joined", "interested", "maybe", None} :
             participate_event(u, id, t) =>
                 /\ t \notin {"joined", "interested"} =>
                        /\ response'.code = 400
                        /\ event_participants' = event_participants
                 /\ id \notin DOMAIN destinations =>
                        /\ response'.code \in {400, 404}
                        /\ event_participants' = event_participants
       /\ \A row \in Written :
             /\ row.participation_type \in {"joined", "interested"}
             /\ row.event_id \in DOMAIN destinations]_vars

\* A request for an event that is not in the store has been answered 404
\* while the table holds rows of accepted requests for the events that are.
C23_Witness ==
    /\ response = [op |-> "participate", code |-> 404, body |-> "Event not found"]
    /\ event_participants # <<>>
    /\ Len(destinations) < MaxEvents
    /\ \A k \in DOMAIN event_participants :
           event_participants[k].event_id \in DOMAIN destinations

====
